---- MODULE Spec2Model ----
(***************************************************************************)
(* Storage manager: the registration store, the scheduler tick and the     *)
(* three cleanup algorithms (docker/storage-manager/src).                  *)
(*                                                                         *)
(*   Spec           the scheduler: the control plane, start and stop, and  *)
(*                  run_once executed step by step by the timer.           *)
(*   SpecReentrant  run_once entered by the timer and by a direct caller.  *)
(*   SpecTimer      the timer with the fairness of its interval trigger.   *)
(*   SpecStore      the store operations called one by one.                *)
(*   SpecResolver   the target resolver called on its own.                 *)
(*   SpecAlg        the cleanup algorithms: should_clean and clean on a    *)
(*                  bounded target directory under bounded params          *)
(*                  (SpecMaxSize, SpecKeepN, SpecRemoveBefore: one each).  *)
(*   SpecRacing     the same while another process removes a file.         *)
(***************************************************************************)
EXTENDS Integers, Sequences, FiniteSets, TLC

(***************************************************************************)
(* Bounds of the model.                                                    *)
(***************************************************************************)
\* largest files_removed a clean call of the tick reports
MaxRemoved == 1
\* most files under a target path
MaxFiles == 3
\* ticks of a float timestamp per microsecond of a datetime
TicksPerMicro == 3
\* microseconds in a day (timedelta(days=1)), scaled down
DayLength == 2
\* most files under a target path where the file count plays no part
MaxFilesSmall == 1
MaxFilesRepeat == 2
\* latest reading of the wall clock the store operations take
MaxClock == 1

(***************************************************************************)
(* Scheduler state (scheduler.py, models.py).                              *)
(***************************************************************************)
VARIABLES
    running,    \* StorageScheduler._running
    job,        \* the interval job of run_once is in the BackgroundScheduler
    lastCall,   \* the last call of start or stop and what it did to the timer
    store,      \* registrations table: the set of its rows
    clock,      \* the wall clock _now_iso reads
    lastOp,     \* the last call of a store operation, with the rows it found
    pc,         \* per invoker: position inside run_once
    snap,       \* per invoker: the list list_registrations returned
    idx,        \* per invoker: index of the registration being processed
    status,     \* per invoker: how far each registration of snap got
    cleaned,    \* per invoker: files_removed each clean call returned (-1: none)
    marked      \* per invoker: files_removed handed to mark_cleanup_result (-1: none)

schedVars == <<running, job, lastCall, store, pc, snap, idx, status, cleaned, marked>>

storeVars == <<clock, lastOp>>

(***************************************************************************)
(* State of a call of a cleanup algorithm (algorithms/*.py).               *)
(***************************************************************************)
VARIABLES
    algo,       \* the algorithm called
    params,     \* the params mapping handed to it
    now,        \* datetime.now(timezone.utc), in microseconds
    target,     \* what the target path is: a directory, a file, or missing
    files,      \* the files under the target path, in enumeration order
    before,     \* the files under the target path when the last call began
    call,       \* the last call and how it ended
    earlier     \* the call made before it on the same target and params

algVars == <<algo, params, now, target, files, before, call, earlier>>

(***************************************************************************)
(* The last call of the target resolver (scheduler.py).                    *)
(***************************************************************************)
VARIABLES
    resolution  \* its arguments, what the volume backend answered, its result

resolverVars == <<resolution>>

(***************************************************************************)
(* The last request the HTTP API served and the response it gave (api.py). *)
(***************************************************************************)
VARIABLES
    response    \* the last request of /register and its status code

apiVars == <<response>>

\* run_once is entered by the APScheduler job thread and, being a public
\* method without any guard, by any direct caller.
Invokers == {"timer", "direct"}

Volumes == {"vol-a", "vol-b"}
\* a path is the sequence of its characters
RootPath == <<"/">>
Keys == {<<v, RootPath>> : v \in Volumes}
\* ORDER BY volume_name, path
SortedKeys == << <<"vol-a", RootPath>>, <<"vol-b", RootPath>> >>

(***************************************************************************)
(* _resolve_target_path (scheduler.py).  What the volume backend answers   *)
(* is the environment of the call: whether docker.from_env() gave a client *)
(* at __init__, whether volumes.get raises, and the Mountpoint of the      *)
(* volume's attrs (not given: the key is missing or None).                 *)
(***************************************************************************)
NoMountpoint == [given |-> FALSE, s |-> << >>]
Mountpoint(s) == [given |-> TRUE, s |-> s]
Mountpoints ==
    {NoMountpoint, Mountpoint(<< >>), Mountpoint(<<"/">>),
     Mountpoint(<<"/", "m">>), Mountpoint(<<"/", "m", "/">>)}
ResolverEnvs == [client : BOOLEAN, lookup : {"raises", "found"}, mountpoint : Mountpoints]
RelativePaths ==
    {<< >>, <<"/">>, <<"l">>, <<"/", "l">>, <<"/", "/", "l", "/", "a">>, <<"l", "/">>,
     <<".", ".">>, <<"/", ".", ".", "/", "e">>, <<"l", "/", ".", ".">>}

NotFound == [raised |-> FALSE, found |-> FALSE, path |-> << >>]
Found(path) == [raised |-> FALSE, found |-> TRUE, path |-> path]

\* str.lstrip("/")
RECURSIVE LStripSlash(_)
LStripSlash(s) ==
    IF s # << >> /\ Head(s) = "/" THEN LStripSlash(Tail(s)) ELSE s

\* os.path.join(a, b) for b that is not absolute
PathJoin(a, b) ==
    IF a = << >> THEN b
    ELSE IF a[Len(a)] = "/" THEN a \o b
    ELSE a \o <<"/">> \o b

\* a faulty variant of _resolve_target_path: the volume lookup is outside the
\* try block and the relative path is joined as it is given
resolve_unguarded(env, relative_path) ==
    IF ~env.client THEN NotFound
    ELSE IF env.lookup = "raises" THEN [NotFound EXCEPT !.raised = TRUE]
    ELSE LET mountpoint == IF env.mountpoint.given THEN env.mountpoint.s ELSE << >>
         IN  IF mountpoint = << >> THEN NotFound
             ELSE Found(PathJoin(mountpoint, relative_path))

_resolve_target_path(env, relative_path) ==
    IF ~env.client THEN NotFound
    ELSE IF env.lookup = "raises" THEN NotFound
    ELSE LET mountpoint == IF env.mountpoint.given THEN env.mountpoint.s ELSE << >>
             normalized == LStripSlash(relative_path)
         IN  IF mountpoint = << >> THEN NotFound
             ELSE IF normalized = << >> THEN Found(mountpoint)
             ELSE Found(PathJoin(mountpoint, normalized))

ALGORITHM_REGISTRY == {"max_size", "remove_before_date", "keep_n_latest"}
\* algorithm names a registration may carry ("bogus" is in no registry)
RegAlgorithms == {"max_size", "bogus"}

\* params as json.dumps stores them and the description column (NULL for a
\* description of None): what a caller without params and description hands over
DefaultParamsJson == "{}"
DefaultDescription == "NULL"
\* the registrations the control plane submits
Payloads ==
    {[algorithm |-> "max_size", params_json |-> "{}", description |-> "NULL"],
     [algorithm |-> "max_size", params_json |-> "{}", description |-> "logs"],
     [algorithm |-> "bogus", params_json |-> "{\"keep_count\": 1}", description |-> "logs"]}

\* INSERT INTO registrations (...) VALUES (...): last_cleaned is NULL and
\* files_removed_last_run is its DEFAULT 0
NewRow(k, alg, ps, desc, t) ==
    [volume_name |-> k[1], path |-> k[2], algorithm |-> alg,
     params_json |-> ps, description |-> desc,
     created_at |-> t, updated_at |-> t,
     last_cleaned |-> FALSE, files_removed_last_run |-> 0]

\* the rows WHERE volume_name = ? AND path = ?
RowsOf(st, k) == {r \in st : r.volume_name = k[1] /\ r.path = k[2]}

\* a faulty variant of upsert_registration: a plain INSERT into a table
\* without the primary key, the row is appended
upsert_append(st, k, alg, ps, desc, t) == st \cup {NewRow(k, alg, ps, desc, t)}

\* a faulty variant of upsert_registration: INSERT OR REPLACE, the stored
\* row is dropped and a new one written
upsert_replace(st, k, alg, ps, desc, t) ==
    (st \ RowsOf(st, k)) \cup {NewRow(k, alg, ps, desc, t)}

\* upsert_registration: INSERT ... ON CONFLICT(volume_name, path) DO UPDATE
upsert_registration(st, k, alg, ps, desc, t) ==
    IF RowsOf(st, k) = {}
        THEN st \cup {NewRow(k, alg, ps, desc, t)}
        ELSE {IF r \in RowsOf(st, k)
                 THEN [r EXCEPT !.algorithm = alg, !.params_json = ps,
                                !.description = desc, !.updated_at = t]
                 ELSE r : r \in st}

\* a faulty variant of delete_registration: DELETE ... WHERE volume_name = ?
delete_by_volume(st, k) == {r \in st : r.volume_name # k[1]}

\* delete_registration: DELETE ... WHERE volume_name = ? AND path = ?
delete_registration(st, k) == st \ RowsOf(st, k)

\* a faulty variant of mark_cleanup_result: the result is written with
\* INSERT OR REPLACE, a row is made up for a key that has none
mark_or_insert(st, k, n, t) ==
    (st \ RowsOf(st, k)) \cup
        {[r EXCEPT !.last_cleaned = TRUE, !.files_removed_last_run = n,
                   !.updated_at = t] :
            r \in IF RowsOf(st, k) = {}
                     THEN {NewRow(k, "max_size", DefaultParamsJson, DefaultDescription, t)}
                     ELSE RowsOf(st, k)}

\* a faulty variant of mark_cleanup_result: the UPDATE has no WHERE clause
mark_every_row(st, k, n, t) ==
    {[r EXCEPT !.last_cleaned = TRUE, !.files_removed_last_run = n,
               !.updated_at = t] : r \in st}

\* a faulty variant of mark_cleanup_result: the UPDATE sets created_at too
mark_resetting_created_at(st, k, n, t) ==
    {IF r \in RowsOf(st, k)
        THEN [r EXCEPT !.last_cleaned = TRUE, !.files_removed_last_run = n,
                       !.updated_at = t, !.created_at = t]
        ELSE r : r \in st}

\* mark_cleanup_result: UPDATE ... WHERE volume_name = ? AND path = ?
mark_cleanup_result(st, k, n, t) ==
    {IF r \in RowsOf(st, k)
        THEN [r EXCEPT !.last_cleaned = TRUE, !.files_removed_last_run = n,
                       !.updated_at = t]
        ELSE r : r \in st}

\* list_registrations: the rows in (volume_name, path) order
list_registrations(st) ==
    LET present == SelectSeq(SortedKeys, LAMBDA k : RowsOf(st, k) # {})
    IN  [i \in 1..Len(present) |->
            LET row == CHOOSE r \in RowsOf(st, present[i]) : TRUE
            IN  [key |-> present[i], algorithm |-> row.algorithm]]

\* no store operation has been called yet
NoOp == [op |-> "none", key |-> << >>, algorithm |-> "", params_json |-> "",
         description |-> "", files_removed |-> 0, at |-> 0, found |-> {}]

\* a call of a store operation: its arguments, the clock reading it took and
\* the rows of its key it found
OpRecord(op, k, alg, ps, desc, n, t) ==
    [op |-> op, key |-> k, algorithm |-> alg, params_json |-> ps,
     description |-> desc, files_removed |-> n, at |-> t,
     found |-> RowsOf(store, k)]

NoResolution ==
    [called |-> FALSE, volume_name |-> "", relative_path |-> << >>,
     env |-> [client |-> FALSE, lookup |-> "raises", mountpoint |-> NoMountpoint],
     result |-> NotFound]

\* no request has been served yet
NoRequest == [endpoint |-> "none", status |-> 0]

SchedInit ==
    /\ resolution = NoResolution
    /\ response = NoRequest
    /\ running = FALSE
    /\ job = TRUE
    /\ lastCall = [call |-> "none", was |-> FALSE, timer_call |-> "none"]
    /\ store = {}
    /\ clock = 0
    /\ lastOp = NoOp
    /\ pc = [p \in Invokers |-> "idle"]
    /\ snap = [p \in Invokers |-> << >>]
    /\ idx = [p \in Invokers |-> 0]
    /\ status = [p \in Invokers |-> << >>]
    /\ cleaned = [p \in Invokers |-> << >>]
    /\ marked = [p \in Invokers |-> << >>]

(***************************************************************************)
(* Control plane (api.py, discovery.py reach the store through these) and  *)
(* the scheduler's Stopped/Running flag.                                   *)
(***************************************************************************)
Register(k, alg) ==
    /\ store' = upsert_registration(store, k, alg, DefaultParamsJson,
                                     DefaultDescription, clock)
    /\ lastOp' = OpRecord("upsert", k, alg, DefaultParamsJson,
                          DefaultDescription, 0, clock)
    /\ UNCHANGED <<clock, running, job, lastCall, pc, snap, idx, status, cleaned, marked>>
    /\ UNCHANGED <<algVars, resolverVars, apiVars>>

Unregister(k) ==
    /\ store' = delete_registration(store, k)
    /\ lastOp' = OpRecord("delete", k, "", "", "", 0, clock)
    /\ UNCHANGED <<clock, running, job, lastCall, pc, snap, idx, status, cleaned, marked>>
    /\ UNCHANGED <<algVars, resolverVars, apiVars>>

(***************************************************************************)
(* The store operations called one by one (models.py), each reading the    *)
(* wall clock once it is entered.  lastOp keeps the arguments of the call  *)
(* and the rows of its key it found.                                       *)
(***************************************************************************)
Upsert(k, alg, ps, desc) ==
    \E t \in clock..MaxClock :
        /\ clock' = t
        /\ store' = upsert_registration(store, k, alg, ps, desc, t)
        /\ lastOp' = OpRecord("upsert", k, alg, ps, desc, 0, t)
        /\ UNCHANGED <<running, job, lastCall, pc, snap, idx, status, cleaned, marked>>
        /\ UNCHANGED <<algVars, resolverVars, apiVars>>

Delete(k) ==
    /\ store' = delete_registration(store, k)
    /\ lastOp' = OpRecord("delete", k, "", "", "", 0, clock)
    /\ UNCHANGED <<clock, running, job, lastCall, pc, snap, idx, status, cleaned, marked>>
    /\ UNCHANGED <<algVars, resolverVars, apiVars>>

MarkResult(k, n) ==
    \E t \in clock..MaxClock :
        /\ clock' = t
        /\ store' = mark_cleanup_result(store, k, n, t)
        /\ lastOp' = OpRecord("mark", k, "", "", "", n, t)
        /\ UNCHANGED <<running, job, lastCall, pc, snap, idx, status, cleaned, marked>>
        /\ UNCHANGED <<algVars, resolverVars, apiVars>>

\* a faulty variant of start: the early return is missing
startAlways ==
    /\ running' = TRUE
    /\ lastCall' = [call |-> "start", was |-> running, timer_call |-> "start"]
    /\ UNCHANGED <<job, store, pc, snap, idx, status, cleaned, marked>>
    /\ UNCHANGED <<algVars, storeVars, resolverVars, apiVars>>

\* start: nothing when already running, else BackgroundScheduler.start()
start ==
    /\ IF running
          THEN /\ lastCall' = [call |-> "start", was |-> TRUE, timer_call |-> "none"]
               /\ UNCHANGED running
          ELSE /\ lastCall' = [call |-> "start", was |-> FALSE, timer_call |-> "start"]
               /\ running' = TRUE
    /\ UNCHANGED <<job, store, pc, snap, idx, status, cleaned, marked>>
    /\ UNCHANGED <<algVars, storeVars, resolverVars, apiVars>>

\* stop: nothing when not running, else BackgroundScheduler.shutdown(wait=False).
\* The shutdown shuts the job stores and the executor: the default memory job
\* store drops its jobs, and run_once was added to it once, by __init__.
stop ==
    /\ IF running
          THEN /\ lastCall' = [call |-> "stop", was |-> TRUE, timer_call |-> "shutdown"]
               /\ running' = FALSE
               /\ job' = FALSE
          ELSE /\ lastCall' = [call |-> "stop", was |-> FALSE, timer_call |-> "none"]
               /\ UNCHANGED <<running, job>>
    /\ UNCHANGED <<store, pc, snap, idx, status, cleaned, marked>>
    /\ UNCHANGED <<algVars, storeVars, resolverVars, apiVars>>

\* the is_running property, and the body of GET /health
is_running == running
health == [status |-> "ok", scheduler_running |-> is_running]

(***************************************************************************)
(* run_once, one step per call that touches the store, the volume backend  *)
(* or the filesystem.  What the resolver, the algorithm and the store      *)
(* answer depends on the environment and is drawn with \E.                 *)
(***************************************************************************)
InFlight(p) == pc[p] \in {"eval", "clean", "mark"}
Finished(p) == pc[p] \in {"returned", "raised"}

\* the for loop: the next registration of the snapshot, or the end of run_once
NextPc(i, n) == IF i < n THEN "eval" ELSE "returned"

\* a faulty variant of AfterError: the exception leaves the loop and run_once
AfterErrorAbort(i, n) == "raised"

\* a faulty variant of AfterSkip: return in the place of continue
AfterSkipReturn(i, n) == "returned"

\* continue: the registration is skipped, the loop goes on with the next one
AfterSkip(i, n) == NextPc(i, n)

\* except Exception: log a warning, go on with the next registration
AfterError(i, n) == NextPc(i, n)

\* list_registrations is called outside the try block: what it raises
\* (sqlite3.Error, a JSON decoding error) leaves run_once
ListFailure == "raised"

\* a faulty variant of CurrentRegistration: the list is read again from the
\* store at every step of the loop
RereadRegistration(p) ==
    LET regs == list_registrations(store)
    IN  IF idx[p] <= Len(regs) THEN regs[idx[p]] ELSE snap[p][idx[p]]

\* the loop variable: the registration of the list read when the tick began
CurrentRegistration(p) == snap[p][idx[p]]

Settle(p, st, nextpc) ==
    /\ status' = [status EXCEPT ![p][idx[p]] = st]
    /\ pc' = [pc EXCEPT ![p] = nextpc]
    /\ idx' = [idx EXCEPT ![p] = IF nextpc = "eval" THEN idx[p] + 1 ELSE idx[p]]

\* scheduler.py:46, the timer (APScheduler runs at most one instance of a
\* job at a time, its default max_instances) or a direct call
RunOnceBegin(p) ==
    /\ pc[p] = "idle"
    /\ p = "timer" => (running /\ job)
    /\ \/ LET regs == list_registrations(store) IN
            /\ snap' = [snap EXCEPT ![p] = regs]
            /\ status' = [status EXCEPT ![p] = [i \in 1..Len(regs) |-> "pending"]]
            /\ cleaned' = [cleaned EXCEPT ![p] = [i \in 1..Len(regs) |-> -1]]
            /\ marked' = [marked EXCEPT ![p] = [i \in 1..Len(regs) |-> -1]]
            /\ idx' = [idx EXCEPT ![p] = IF Len(regs) > 0 THEN 1 ELSE 0]
            /\ pc' = [pc EXCEPT ![p] = IF Len(regs) > 0 THEN "eval" ELSE "returned"]
       \/ /\ pc' = [pc EXCEPT ![p] = ListFailure]
          /\ UNCHANGED <<snap, idx, status, cleaned, marked>>
    /\ UNCHANGED <<running, job, lastCall, store>>
    /\ UNCHANGED <<algVars, storeVars, resolverVars, apiVars>>

\* scheduler.py:48-67: registry lookup, target resolution, should_clean
Evaluate(p) ==
    /\ pc[p] = "eval"
    /\ LET i == idx[p]
           n == Len(snap[p])
           reg == CurrentRegistration(p)
       IN  IF reg.algorithm \notin ALGORITHM_REGISTRY
               THEN Settle(p, "unknown_algorithm", AfterSkip(i, n))
               ELSE \E env \in ResolverEnvs :
                    IF ~_resolve_target_path(env, reg.key[2]).found
                        THEN Settle(p, "unresolved", AfterSkip(i, n))
                        ELSE \/ Settle(p, "should_false", NextPc(i, n))
                             \/ Settle(p, "should_raised", AfterError(i, n))
                             \/ /\ pc' = [pc EXCEPT ![p] = "clean"]
                                /\ UNCHANGED <<idx, status>>
    /\ UNCHANGED <<running, job, lastCall, store, snap, cleaned, marked>>
    /\ UNCHANGED <<algVars, storeVars, resolverVars, apiVars>>

\* scheduler.py:68: algorithm.clean
Clean(p) ==
    /\ pc[p] = "clean"
    /\ LET i == idx[p]
           n == Len(snap[p])
       IN  \/ \E removed \in 0..MaxRemoved :
                /\ cleaned' = [cleaned EXCEPT ![p][i] = removed]
                /\ pc' = [pc EXCEPT ![p] = "mark"]
                /\ UNCHANGED <<idx, status>>
           \/ /\ Settle(p, "clean_raised", AfterError(i, n))
              /\ UNCHANGED cleaned
    /\ UNCHANGED <<running, job, lastCall, store, snap, marked>>
    /\ UNCHANGED <<algVars, storeVars, resolverVars, apiVars>>

\* a faulty variant of Mark: the count handed to mark_cleanup_result is not
\* the one clean returned
MarkWithoutResult(p) ==
    /\ pc[p] = "mark"
    /\ LET i == idx[p]
           n == Len(snap[p])
           reg == CurrentRegistration(p)
       IN  \/ /\ store' = mark_cleanup_result(store, reg.key, 0, clock)
              /\ lastOp' = OpRecord("mark", reg.key, "", "", "", 0, clock)
              /\ marked' = [marked EXCEPT ![p][i] = 0]
              /\ Settle(p, "marked", NextPc(i, n))
           \/ /\ Settle(p, "mark_raised", AfterError(i, n))
              /\ UNCHANGED <<store, lastOp, marked>>
    /\ UNCHANGED <<clock, running, job, lastCall, snap, cleaned>>
    /\ UNCHANGED <<algVars, resolverVars, apiVars>>

\* scheduler.py:69-74: mark_cleanup_result
Mark(p) ==
    /\ pc[p] = "mark"
    /\ LET i == idx[p]
           n == Len(snap[p])
           reg == CurrentRegistration(p)
       IN  \/ /\ store' = mark_cleanup_result(store, reg.key, cleaned[p][i], clock)
              /\ lastOp' = OpRecord("mark", reg.key, "", "", "", cleaned[p][i], clock)
              /\ marked' = [marked EXCEPT ![p][i] = cleaned[p][i]]
              /\ Settle(p, "marked", NextPc(i, n))
           \/ /\ Settle(p, "mark_raised", AfterError(i, n))
              /\ UNCHANGED <<store, lastOp, marked>>
    /\ UNCHANGED <<clock, running, job, lastCall, snap, cleaned>>
    /\ UNCHANGED <<algVars, resolverVars, apiVars>>

\* run_once has returned to (or raised into) its caller
RunOnceEnd(p) ==
    /\ Finished(p)
    /\ pc' = [pc EXCEPT ![p] = "idle"]
    /\ snap' = [snap EXCEPT ![p] = << >>]
    /\ idx' = [idx EXCEPT ![p] = 0]
    /\ status' = [status EXCEPT ![p] = << >>]
    /\ cleaned' = [cleaned EXCEPT ![p] = << >>]
    /\ marked' = [marked EXCEPT ![p] = << >>]
    /\ UNCHANGED <<running, job, lastCall, store>>
    /\ UNCHANGED <<algVars, storeVars, resolverVars, apiVars>>

(***************************************************************************)
(* The cleanup algorithms (algorithms/*.py).                               *)
(*                                                                         *)
(* A file is what stat() tells of it: st_mtime and st_ctime in ticks (the  *)
(* float timestamps are finer than a microsecond: TicksPerMicro ticks make *)
(* one microsecond) and st_size in bytes.  id names the file.  The target  *)
(* is the list of its files in the order rglob enumerates them.            *)
(***************************************************************************)
\* a JSON value of params; params.get(key) is None for a missing key
PNone == [t |-> "none", n |-> 0, s |-> ""]
PInt(n) == [t |-> "int", n |-> n, s |-> ""]
PStr(s) == [t |-> "str", n |-> 0, s |-> s]

\* Python truth value of a params value
Truthy(x) ==
    \/ (x.t = "int" /\ x.n # 0)
    \/ (x.t = "str" /\ x.s # "")
    \/ (x.t = "obj" /\ x.s # "{}")
    \/ (x.t = "list" /\ x.s # "[]")

\* x or 0
OrZero(x) == IF Truthy(x) THEN x ELSE PInt(0)

\* x or "mtime"
OrMtime(x) == IF Truthy(x) THEN x ELSE PStr("mtime")

\* int(x): an integer is itself, a string is parsed, anything else of the
\* modelled strings raises ValueError
PyInt(x) ==
    IF x.t = "int" THEN [ok |-> TRUE, n |-> x.n]
    ELSE CASE x.s = "0" -> [ok |-> TRUE, n |-> 0]
           [] x.s = "1" -> [ok |-> TRUE, n |-> 1]
           [] x.s = "2" -> [ok |-> TRUE, n |-> 2]
           [] x.s = "3" -> [ok |-> TRUE, n |-> 3]
           [] OTHER -> [ok |-> FALSE, n |-> 0]

\* str(x)
PyStr(x) ==
    IF x.t = "str" THEN x.s
    ELSE CASE x.n = 0 -> "0" [] x.n = 1 -> "1" [] x.n = 2 -> "2" [] OTHER -> "3"

\* str.lower() on the modelled strings
Lower(s) ==
    CASE s = "CTIME" -> "ctime"
      [] s = "Size" -> "size"
      [] s = "MTIME" -> "mtime"
      [] OTHER -> s

\* str.strip() on the modelled strings
Strip(s) ==
    CASE s = " size " -> "size"
      [] s = " " -> ""
      [] s = " l " -> "l"
      [] s = " bogus " -> "bogus"
      [] OTHER -> s

VALID_SORT_BY_VALUES == {"mtime", "ctime", "size"}

\* utils.validate_sort_by: the normalized value, or ValueError
validate_sort_by(sort_by) ==
    LET normalized == Strip(Lower(IF sort_by = "" THEN "mtime" ELSE sort_by))
    IN  [ok |-> normalized \in VALID_SORT_BY_VALUES, s |-> normalized]

\* sum(int(item.stat().st_size) for item in files if item.exists())
RECURSIVE SumSizes(_, _)
SumSizes(fs, i) == IF i > Len(fs) THEN 0 ELSE fs[i].size + SumSizes(fs, i + 1)
_total_size(fs) == SumSizes(fs, 1)

\* the key a sort lambda reads off a file
KeyOf(f, sort_by) ==
    CASE sort_by = "size" -> f.size
      [] sort_by = "ctime" -> f.ctime
      [] OTHER -> f.mtime

\* list.sort(key=..., reverse=...): a stable sort; reverse=True sorts by
\* descending key and keeps equal keys in their original order
ListSort(fs, sort_by, reverse) ==
    LET key(i) == KeyOf(fs[i], sort_by)
        Precedes(j, i) ==
            \/ IF reverse THEN key(j) > key(i) ELSE key(j) < key(i)
            \/ key(j) = key(i) /\ j < i
        pos(i) == 1 + Cardinality({j \in 1..Len(fs) : Precedes(j, i)})
    IN  [p \in 1..Len(fs) |-> fs[CHOOSE i \in 1..Len(fs) : pos(i) = p]]

\* the files of fs that are not in the set gone of file ids
Without(fs, gone) == SelectSeq(fs, LAMBDA f : f.id \notin gone)

Ids(fs) == {fs[i].id : i \in 1..Len(fs)}

\* what a call answers: it raised ValueError, or returned ret (the bool of
\* should_clean, the CleanupResult.cleaned of clean) with the counters of
\* the CleanupResult, leaving the files left under the target
Raise(fs) ==
    [raised |-> TRUE, ret |-> FALSE, files_removed |-> 0, bytes_freed |-> 0, left |-> fs]
Answer(fs, b) ==
    [raised |-> FALSE, ret |-> b, files_removed |-> 0, bytes_freed |-> 0, left |-> fs]
CleanupResult(fs, gone) ==
    [raised |-> FALSE, ret |-> Cardinality(gone) > 0,
     files_removed |-> Cardinality(gone),
     bytes_freed |-> _total_size(fs) - _total_size(Without(fs, gone)),
     left |-> Without(fs, gone)]

(***************************************************************************)
(* MaxSizeAlgorithm (algorithms/max_size.py).                              *)
(***************************************************************************)
MaxSize_should_clean(fs, ps) ==
    LET max_bytes == PyInt(OrZero(ps.max_bytes))
    IN  IF ~max_bytes.ok THEN Raise(fs)
        ELSE Answer(fs, _total_size(fs) > max_bytes.n /\ max_bytes.n > 0)

\* a faulty variant of MaxSizeLoop: the size that the deletion would leave is
\* tested before the deletion, so the loop stops one file early
RECURSIVE MaxSizeLoopStopsEarly(_, _, _, _)
MaxSizeLoopStopsEarly(sorted, i, current_size, max_bytes) ==
    IF i > Len(sorted) \/ current_size - sorted[i].size <= max_bytes THEN {}
    ELSE {sorted[i].id}
            \cup MaxSizeLoopStopsEarly(sorted, i + 1, current_size - sorted[i].size, max_bytes)

\* a faulty variant of MaxSizeLoop: the loop stops below the cap only, a
\* total that equals max_bytes costs one more file
RECURSIVE MaxSizeLoopBelowCap(_, _, _, _)
MaxSizeLoopBelowCap(sorted, i, current_size, max_bytes) ==
    IF i > Len(sorted) \/ current_size < max_bytes THEN {}
    ELSE {sorted[i].id}
            \cup MaxSizeLoopBelowCap(sorted, i + 1, current_size - sorted[i].size, max_bytes)

\* the for loop of clean: the ids of the files it unlinks, from the i-th on
RECURSIVE MaxSizeLoop(_, _, _, _)
MaxSizeLoop(sorted, i, current_size, max_bytes) ==
    IF i > Len(sorted) \/ current_size <= max_bytes THEN {}
    ELSE {sorted[i].id}
            \cup MaxSizeLoop(sorted, i + 1, current_size - sorted[i].size, max_bytes)

\* a faulty variant of MaxSizeOrder: reverse=True is missing, the smallest
\* files come first
MaxSizeOrderSmallestFirst(fs, sort_by) ==
    IF sort_by = "size" THEN ListSort(fs, "size", FALSE)
    ELSE IF sort_by = "ctime" THEN ListSort(fs, "ctime", FALSE)
    ELSE ListSort(fs, "mtime", FALSE)

\* the order in which clean walks the files
MaxSizeOrder(fs, sort_by) ==
    IF sort_by = "size" THEN ListSort(fs, "size", TRUE)
    ELSE IF sort_by = "ctime" THEN ListSort(fs, "ctime", FALSE)
    ELSE ListSort(fs, "mtime", FALSE)

MaxSize_clean(fs, ps) ==
    LET max_bytes == PyInt(OrZero(ps.max_bytes))
        sort_by == Lower(PyStr(OrMtime(ps.sort_by)))
    IN  IF ~max_bytes.ok THEN Raise(fs)
        ELSE IF max_bytes.n <= 0 THEN Raise(fs)
        ELSE IF Len(fs) = 0 THEN CleanupResult(fs, {})
        ELSE CleanupResult(fs,
                MaxSizeLoop(MaxSizeOrder(fs, sort_by), 1, _total_size(fs), max_bytes.n))

(***************************************************************************)
(* KeepNLatestAlgorithm (algorithms/keep_n_latest.py).                     *)
(***************************************************************************)
\* a faulty variant of KeepN_should_clean: >= in the place of >
KeepN_should_clean_at_least(fs, ps) ==
    LET keep_count == PyInt(OrZero(ps.keep_count))
    IN  IF ~keep_count.ok THEN Raise(fs)
        ELSE IF keep_count.n < 0 THEN Raise(fs)
        ELSE IF ~validate_sort_by(PyStr(OrMtime(ps.sort_by))).ok THEN Raise(fs)
        ELSE Answer(fs, Len(fs) >= keep_count.n)

KeepN_should_clean(fs, ps) ==
    LET keep_count == PyInt(OrZero(ps.keep_count))
    IN  IF ~keep_count.ok THEN Raise(fs)
        ELSE IF keep_count.n < 0 THEN Raise(fs)
        ELSE IF ~validate_sort_by(PyStr(OrMtime(ps.sort_by))).ok THEN Raise(fs)
        ELSE Answer(fs, Len(fs) > keep_count.n)

\* a faulty variant of KeepNOrder: reverse=True is forgotten
KeepNOrderAscending(fs, sort_by) ==
    IF sort_by = "ctime" THEN ListSort(fs, "ctime", FALSE)
    ELSE IF sort_by = "size" THEN ListSort(fs, "size", FALSE)
    ELSE ListSort(fs, "mtime", FALSE)

\* the ranking of clean: descending by the sort key
KeepNOrder(fs, sort_by) ==
    IF sort_by = "ctime" THEN ListSort(fs, "ctime", TRUE)
    ELSE IF sort_by = "size" THEN ListSort(fs, "size", TRUE)
    ELSE ListSort(fs, "mtime", TRUE)

\* files[keep_count:]
SliceFrom(sorted, keep_count) ==
    {sorted[i].id : i \in (keep_count + 1)..Len(sorted)}

KeepN_clean(fs, ps) ==
    LET keep_count == PyInt(OrZero(ps.keep_count))
        sort_by == validate_sort_by(PyStr(OrMtime(ps.sort_by)))
    IN  IF ~keep_count.ok THEN Raise(fs)
        ELSE IF keep_count.n < 0 THEN Raise(fs)
        ELSE IF ~sort_by.ok THEN Raise(fs)
        ELSE IF Len(fs) = 0 THEN CleanupResult(fs, {})
        ELSE CleanupResult(fs, SliceFrom(KeepNOrder(fs, sort_by.s), keep_count.n))

(***************************************************************************)
(* RemoveBeforeDateAlgorithm (algorithms/remove_before_date.py).           *)
(* A datetime is a whole number of microseconds since the epoch.           *)
(***************************************************************************)
\* datetime.fromisoformat(s.replace("Z", "+00:00")), a naive result taken
\* as UTC, on the modelled strings; anything else raises ValueError
FromIsoFormat(s) ==
    CASE s = "1970-01-01T00:00:00Z" -> [ok |-> TRUE, n |-> 0]
      [] s = "1970-01-01T00:00:00.000001" -> [ok |-> TRUE, n |-> 1]
      [] OTHER -> [ok |-> FALSE, n |-> 0]

\* datetime.fromtimestamp(st_mtime, tz=utc): the float timestamp rounded to
\* the nearest microsecond, a tie to the even one
FromTimestamp(ticks) ==
    LET q == ticks \div TicksPerMicro
        r == ticks % TicksPerMicro
    IN  IF 2 * r < TicksPerMicro THEN q
        ELSE IF 2 * r > TicksPerMicro THEN q + 1
        ELSE IF q % 2 = 0 THEN q ELSE q + 1

_parse_threshold(ps, t) ==
    IF Truthy(ps.before_date) THEN FromIsoFormat(PyStr(ps.before_date))
    ELSE IF ps.max_age_days.t # "none"
        THEN LET days == PyInt(ps.max_age_days)
             IN  [ok |-> days.ok, n |-> t - days.n * DayLength]
    ELSE [ok |-> FALSE, n |-> 0]

\* a faulty variant of IsBefore: a file modified at the threshold is removed too
IsBeforeOrAt(f, threshold) == FromTimestamp(f.mtime) <= threshold

\* modified < threshold
IsBefore(f, threshold) == FromTimestamp(f.mtime) < threshold

RemoveBefore_should_clean(fs, ps, t) ==
    LET threshold == _parse_threshold(ps, t)
    IN  IF ~threshold.ok THEN Raise(fs)
        ELSE Answer(fs, \E i \in 1..Len(fs) : IsBefore(fs[i], threshold.n))

\* a faulty variant of RemoveBefore_clean: the loop breaks after the first
\* file it unlinks
RemoveBefore_clean_first(fs, ps, t) ==
    LET threshold == _parse_threshold(ps, t)
        expired == {j \in 1..Len(fs) : IsBefore(fs[j], threshold.n)}
    IN  IF ~threshold.ok THEN Raise(fs)
        ELSE CleanupResult(fs,
                {fs[i].id : i \in {j \in expired : \A k \in expired : j <= k}})

RemoveBefore_clean(fs, ps, t) ==
    LET threshold == _parse_threshold(ps, t)
    IN  IF ~threshold.ok THEN Raise(fs)
        ELSE CleanupResult(fs,
                {fs[i].id : i \in {j \in 1..Len(fs) : IsBefore(fs[j], threshold.n)}})

(***************************************************************************)
(* The algorithms while another process removes the files of the set gone  *)
(* from the target: after the scan (_iter_files, iter_files) and before    *)
(* the call stats any file, or, when late, after clean has sorted the      *)
(* files and summed their sizes and before its loop.  Path.stat() of a     *)
(* removed file raises FileNotFoundError; Path.exists() is False and       *)
(* unlink(missing_ok=True) returns.                                        *)
(***************************************************************************)
\* the call raised after it unlinked the files of the set removed
RaiseAfter(fs, gone, removed) ==
    [Raise(Without(fs, gone \cup removed)) EXCEPT
        !.files_removed = Cardinality(removed)]

\* _total_size skips the files that exist no more
MaxSize_should_clean_racing(fs, ps, gone) ==
    LET max_bytes == PyInt(OrZero(ps.max_bytes))
        present == Without(fs, gone)
    IN  IF ~max_bytes.ok THEN Raise(present)
        ELSE Answer(present, _total_size(present) > max_bytes.n /\ max_bytes.n > 0)

\* the for loop of clean from the i-th file on: the ids it unlinks, and
\* whether file_path.stat() raised
RECURSIVE MaxSizeLoopRacing(_, _, _, _, _)
MaxSizeLoopRacing(sorted, i, current_size, max_bytes, gone) ==
    IF i > Len(sorted) \/ current_size <= max_bytes
        THEN [raised |-> FALSE, ids |-> {}]
    ELSE IF sorted[i].id \in gone
        THEN [raised |-> TRUE, ids |-> {}]
    ELSE LET rest == MaxSizeLoopRacing(sorted, i + 1,
                        current_size - sorted[i].size, max_bytes, gone)
         IN  [raised |-> rest.raised, ids |-> {sorted[i].id} \cup rest.ids]

\* the sort keys stat every file of the scan
MaxSize_clean_racing(fs, ps, gone, late) ==
    LET max_bytes == PyInt(OrZero(ps.max_bytes))
        sort_by == Lower(PyStr(OrMtime(ps.sort_by)))
        loop == MaxSizeLoopRacing(MaxSizeOrder(fs, sort_by), 1, _total_size(fs),
                                  max_bytes.n, gone)
    IN  IF ~max_bytes.ok \/ max_bytes.n <= 0 THEN Raise(Without(fs, gone))
        ELSE IF Len(fs) = 0 THEN CleanupResult(fs, {})
        ELSE IF ~late THEN
            IF gone # {} THEN RaiseAfter(fs, gone, {}) ELSE MaxSize_clean(fs, ps)
        ELSE IF loop.raised THEN RaiseAfter(fs, gone, loop.ids)
        ELSE [CleanupResult(fs, loop.ids) EXCEPT
                !.left = Without(fs, gone \cup loop.ids)]

\* should_clean of keep_n_latest counts the files of the scan, it stats none
KeepN_should_clean_racing(fs, ps, gone) ==
    [KeepN_should_clean(fs, ps) EXCEPT !.left = Without(fs, gone)]

\* a loop that stats the files of walk in order stops at the first one that
\* exists no more: the files it reached before
Reached(walk, gone) ==
    LET stops == {i \in 1..Len(walk) : walk[i].id \in gone}
    IN  IF stops = {} THEN walk
        ELSE SubSeq(walk, 1, (CHOOSE i \in stops : \A j \in stops : i <= j) - 1)

KeepN_clean_racing(fs, ps, gone, late) ==
    LET keep_count == PyInt(OrZero(ps.keep_count))
        sort_by == validate_sort_by(PyStr(OrMtime(ps.sort_by)))
        sorted == KeepNOrder(fs, sort_by.s)
        to_delete == SubSeq(sorted, keep_count.n + 1, Len(sorted))
        reached == Reached(to_delete, gone)
    IN  IF ~keep_count.ok \/ keep_count.n < 0 \/ ~sort_by.ok
            THEN Raise(Without(fs, gone))
        ELSE IF Len(fs) = 0 THEN CleanupResult(fs, {})
        ELSE IF ~late THEN
            IF gone # {} THEN RaiseAfter(fs, gone, {}) ELSE KeepN_clean(fs, ps)
        ELSE IF Len(reached) < Len(to_delete) THEN RaiseAfter(fs, gone, Ids(reached))
        ELSE [CleanupResult(fs, Ids(to_delete)) EXCEPT
                !.left = Without(fs, gone \cup Ids(to_delete))]

\* the loop returns True at the first file modified before the threshold
RemoveBefore_should_clean_racing(fs, ps, t, gone) ==
    LET threshold == _parse_threshold(ps, t)
        reached == Reached(fs, gone)
        found == \E i \in 1..Len(reached) : IsBefore(reached[i], threshold.n)
    IN  IF ~threshold.ok THEN Raise(Without(fs, gone))
        ELSE IF found THEN Answer(Without(fs, gone), TRUE)
        ELSE IF Len(reached) < Len(fs) THEN RaiseAfter(fs, gone, {})
        ELSE Answer(fs, FALSE)

RemoveBefore_clean_racing(fs, ps, t, gone) ==
    LET threshold == _parse_threshold(ps, t)
        reached == Reached(fs, gone)
        removed == {reached[i].id :
                        i \in {j \in 1..Len(reached) : IsBefore(reached[j], threshold.n)}}
    IN  IF ~threshold.ok THEN Raise(Without(fs, gone))
        ELSE IF Len(reached) < Len(fs) THEN RaiseAfter(fs, gone, removed)
        ELSE CleanupResult(fs, removed)

should_clean_racing(a, fs, ps, t, gone) ==
    CASE a = "max_size" -> MaxSize_should_clean_racing(fs, ps, gone)
      [] a = "keep_n_latest" -> KeepN_should_clean_racing(fs, ps, gone)
      [] OTHER -> RemoveBefore_should_clean_racing(fs, ps, t, gone)

clean_racing(a, fs, ps, t, gone, late) ==
    CASE a = "max_size" -> MaxSize_clean_racing(fs, ps, gone, late)
      [] a = "keep_n_latest" -> KeepN_clean_racing(fs, ps, gone, late)
      [] OTHER -> RemoveBefore_clean_racing(fs, ps, t, gone)

(***************************************************************************)
(* Calls of the algorithms on a target directory.                          *)
(***************************************************************************)
\* a faulty variant of should_clean: a call that answers true has unlinked
\* the first file it looked at
should_clean_unlinking(a, fs, ps, t) ==
    LET r == CASE a = "max_size" -> MaxSize_should_clean(fs, ps)
               [] a = "keep_n_latest" -> KeepN_should_clean(fs, ps)
               [] OTHER -> RemoveBefore_should_clean(fs, ps, t)
    IN  IF r.ret THEN [r EXCEPT !.left = Tail(fs)] ELSE r

should_clean(a, fs, ps, t) ==
    CASE a = "max_size" -> MaxSize_should_clean(fs, ps)
      [] a = "keep_n_latest" -> KeepN_should_clean(fs, ps)
      [] OTHER -> RemoveBefore_should_clean(fs, ps, t)

clean(a, fs, ps, t) ==
    CASE a = "max_size" -> MaxSize_clean(fs, ps)
      [] a = "keep_n_latest" -> KeepN_clean(fs, ps)
      [] OTHER -> RemoveBefore_clean(fs, ps, t)

\* st_mtime and st_ctime of a file in ticks, st_size in bytes; the files
\* tried with remove_before_date, which reads st_mtime and st_size only,
\* spread over more modification times and share one creation time
FileAttrs(a) ==
    IF a = "remove_before_date"
        THEN [mtime : 0..4, ctime : {0}, size : 1..2]
        ELSE [mtime : 0..2, ctime : 0..1, size : 1..2]

SortByValues ==
    {PNone, PStr("mtime"), PStr("CTIME"), PStr("size"), PStr("unknown")}
MaxBytesValues ==
    {PNone, PStr("2"), PStr("abc")} \cup {PInt(n) : n \in -1..3}
KeepCountValues ==
    {PNone, PStr("1"), PStr("abc")} \cup {PInt(n) : n \in -1..2}
BeforeDateValues ==
    {PNone, PStr(""), PStr("1970-01-01T00:00:00Z"),
     PStr("1970-01-01T00:00:00.000001"), PStr("yesterday")}
MaxAgeDaysValues == {PNone, PInt(0), PInt(1), PStr("soon")}

NoParams ==
    [max_bytes |-> PNone, sort_by |-> PNone, keep_count |-> PNone,
     before_date |-> PNone, max_age_days |-> PNone]

\* the params mappings tried with each algorithm: the keys it reads
ParamsOf(a) ==
    CASE a = "max_size" ->
            {[NoParams EXCEPT !.max_bytes = m, !.sort_by = sb] :
                m \in MaxBytesValues, sb \in SortByValues}
      [] a = "keep_n_latest" ->
            {[NoParams EXCEPT !.keep_count = k, !.sort_by = sb] :
                k \in KeepCountValues, sb \in SortByValues}
      [] OTHER ->
            {[NoParams EXCEPT !.before_date = b, !.max_age_days = d] :
                b \in BeforeDateValues, d \in MaxAgeDaysValues}

\* the clock is read by remove_before_date only
NowValues(a) ==
    IF a = "remove_before_date" THEN {DayLength, DayLength + 1} ELSE {DayLength}

NoCall ==
    [op |-> "none", raised |-> FALSE, ret |-> FALSE,
     files_removed |-> 0, bytes_freed |-> 0]

\* iter_files, _iter_files: the path itself when it is a file, nothing when
\* it does not exist, else the files rglob finds under it
iter_files(kind, listing) ==
    IF kind = "file" THEN <<listing[1]>>
    ELSE IF kind = "missing" THEN << >>
    ELSE listing

\* a target path and how many files it can hold
TargetKinds == {"dir", "file", "missing"}
FileCounts(kind, most) ==
    IF kind = "file" THEN {1} ELSE IF kind = "missing" THEN {0} ELSE 0..most

AlgQuiet ==
    /\ algo = "max_size"
    /\ target = "dir"
    /\ params = NoParams
    /\ now = DayLength
    /\ files = << >>
    /\ before = << >>
    /\ call = NoCall
    /\ earlier = NoCall

\* a target directory and a params mapping for one of the algorithms as
AlgInitUpTo(as, most) ==
    /\ algo \in as
    /\ params \in ParamsOf(algo)
    /\ now \in NowValues(algo)
    /\ target \in TargetKinds
    /\ \E n \in FileCounts(target, most) :
         \E attrs \in [1..n -> FileAttrs(algo)] :
            files = [i \in 1..n |->
                        [id |-> i, mtime |-> attrs[i].mtime,
                         ctime |-> attrs[i].ctime, size |-> attrs[i].size]]
    /\ before = files
    /\ call = NoCall
    /\ earlier = NoCall

AlgInit(as) == AlgInitUpTo(as, MaxFiles)

Record(op, r) ==
    /\ before' = files
    /\ files' = r.left
    /\ call' = [op |-> op, raised |-> r.raised, ret |-> r.ret,
                files_removed |-> r.files_removed, bytes_freed |-> r.bytes_freed]
    /\ earlier' = call
    /\ UNCHANGED <<algo, params, now, target>>

CallShouldClean ==
    /\ call.op = "none"
    /\ Record("should_clean", should_clean(algo, iter_files(target, files), params, now))
    /\ UNCHANGED <<schedVars, storeVars, resolverVars, apiVars>>

CallClean ==
    /\ call.op = "none"
    /\ Record("clean", clean(algo, iter_files(target, files), params, now))
    /\ UNCHANGED <<schedVars, storeVars, resolverVars, apiVars>>

\* what the target path is by now: a path that was a file and got unlinked
\* does not exist any more
TargetNow == IF target = "file" /\ files = << >> THEN "missing" ELSE target

\* a second call on the same target with the same params, nothing else
\* having touched the target since the first one
CallShouldCleanAgain ==
    /\ call.op \in {"should_clean", "clean"}
    /\ earlier.op = "none"
    /\ Record("should_clean", should_clean(algo, iter_files(TargetNow, files), params, now))
    /\ UNCHANGED <<schedVars, storeVars, resolverVars, apiVars>>

CallCleanAgain ==
    /\ call.op \in {"should_clean", "clean"}
    /\ earlier.op = "none"
    /\ Record("clean", clean(algo, iter_files(TargetNow, files), params, now))
    /\ UNCHANGED <<schedVars, storeVars, resolverVars, apiVars>>

\* the calls with another process removing one file of the target meanwhile
CallShouldCleanRacing ==
    /\ call.op = "none"
    /\ \E f \in Ids(files) :
        Record("should_clean_racing",
               should_clean_racing(algo, iter_files(target, files), params, now, {f}))
    /\ UNCHANGED <<schedVars, storeVars, resolverVars, apiVars>>

CallCleanRacing ==
    /\ call.op = "none"
    /\ \E f \in Ids(files), late \in BOOLEAN :
        Record("clean_racing",
               clean_racing(algo, iter_files(target, files), params, now, {f}, late))
    /\ UNCHANGED <<schedVars, storeVars, resolverVars, apiVars>>

vars == <<schedVars, storeVars, algVars, resolverVars, apiVars>>

\* the deployed service: the control plane, the scheduler's flag and run_once
\* entered by the timer only
Init == SchedInit /\ AlgQuiet
Next ==
    \/ \E k \in Keys, alg \in RegAlgorithms : Register(k, alg)
    \/ \E k \in Keys : Unregister(k)
    \/ start
    \/ stop
    \/ RunOnceBegin("timer")
    \/ Evaluate("timer")
    \/ Clean("timer")
    \/ Mark("timer")
    \/ RunOnceEnd("timer")
Spec == Init /\ [][Next]_vars

\* run_once entered by the timer and by a direct caller, one registration key
NextReentrant ==
    \/ \E alg \in RegAlgorithms : Register(SortedKeys[1], alg)
    \/ Unregister(SortedKeys[1])
    \/ start
    \/ stop
    \/ \E p \in Invokers : RunOnceBegin(p)
    \/ \E p \in Invokers : Evaluate(p)
    \/ \E p \in Invokers : Clean(p)
    \/ \E p \in Invokers : Mark(p)
    \/ \E p \in Invokers : RunOnceEnd(p)
SpecReentrant == Init /\ [][NextReentrant]_vars

\* one call, should_clean or clean, of one algorithm on one target
\* the timer at work: the interval trigger fires run_once whenever it is due
\* and the job thread runs every step of a tick it began; one registration key
NextTimer ==
    \/ \E alg \in RegAlgorithms : Register(SortedKeys[1], alg)
    \/ Unregister(SortedKeys[1])
    \/ start
    \/ stop
    \/ RunOnceBegin("timer")
    \/ Evaluate("timer")
    \/ Clean("timer")
    \/ Mark("timer")
    \/ RunOnceEnd("timer")
TimerFairness ==
    /\ WF_vars(RunOnceBegin("timer"))
    /\ WF_vars(Evaluate("timer"))
    /\ WF_vars(Clean("timer"))
    /\ WF_vars(Mark("timer"))
    /\ WF_vars(RunOnceEnd("timer"))
SpecTimer == Init /\ [][NextTimer]_vars /\ TimerFairness

(***************************************************************************)
(* The HTTP API (api.py): POST /register and DELETE /register.  A JSON     *)
(* object or array is the text json.dumps gives for it.                    *)
(***************************************************************************)
JObject(s) == [t |-> "obj", n |-> 0, s |-> s]
JList(s) == [t |-> "list", n |-> 0, s |-> s]

\* x or ""
OrEmptyStr(x) == IF Truthy(x) THEN x ELSE PStr("")

\* x or {}
OrEmptyDict(x) == IF Truthy(x) THEN x ELSE JObject("{}")

\* the characters of a modelled path string
Chars(s) ==
    CASE s = "/" -> <<"/">>
      [] s = "l" -> <<"l">>
      [] OTHER -> << >>

\* a payload is what payload.get gives for each key: PNone for a missing key
EmptyPayload ==
    [volume_name |-> PNone, path |-> PNone, algorithm |-> PNone,
     params |-> PNone, description |-> PNone]

\* two well-formed JSON objects
BasePayloads ==
    {[volume_name |-> PStr("vol-a"), path |-> PStr("/"), algorithm |-> PStr(" bogus "),
      params |-> JObject("{\"keep_count\": 1}"), description |-> PNone],
     [volume_name |-> PStr("vol-a"), path |-> PStr(" l "), algorithm |-> PStr(" bogus "),
      params |-> JObject("{\"keep_count\": 1}"), description |-> PStr("logs")]}

\* the JSON objects a client posts: a well-formed one, or one with a key
\* missing, blank or of another type
RequestPayloads ==
    UNION {{pl}
            \cup {[pl EXCEPT !.volume_name = v] : v \in {PNone, PStr(" ")}}
            \cup {[pl EXCEPT !.path = v] : v \in {PNone, PStr(" ")}}
            \cup {[pl EXCEPT !.algorithm = v] : v \in {PNone, PStr(" ")}}
            \cup {[pl EXCEPT !.params = v] : v \in {PNone, JList("[]"), JList("[1]")}}
          : pl \in BasePayloads}

\* the bodies a client posts: a JSON object, a JSON array, or no JSON at all
RequestBodies ==
    {[kind |-> "object", payload |-> pl] : pl \in RequestPayloads}
        \cup {[kind |-> "array", payload |-> EmptyPayload],
              [kind |-> "not_json", payload |-> EmptyPayload]}

ParseError(msg) ==
    [ok |-> FALSE, error |-> msg, volume_name |-> "", path |-> "",
     algorithm |-> "", params_json |-> "", description |-> ""]

\* _parse_registration_payload: the parsed registration, or the ValueError
_parse_registration_payload(payload) ==
    LET volume_name == Strip(PyStr(OrEmptyStr(payload.volume_name)))
        path == Strip(PyStr(OrEmptyStr(payload.path)))
        algorithm == Strip(PyStr(OrEmptyStr(payload.algorithm)))
        given == OrEmptyDict(payload.params)
    IN  IF volume_name = "" THEN ParseError("volume_name is required")
        ELSE IF path = "" THEN ParseError("path is required")
        ELSE IF algorithm = "" THEN ParseError("algorithm is required")
        ELSE IF given.t # "obj" THEN ParseError("params must be an object")
        ELSE [ok |-> TRUE, error |-> "", volume_name |-> volume_name,
              path |-> path, algorithm |-> algorithm, params_json |-> given.s,
              description |-> IF payload.description.t = "none"
                                 THEN DefaultDescription
                                 ELSE PyStr(payload.description)]

\* what POST /register answered to a body
Reply(body, code, parsed) ==
    [endpoint |-> "POST /register", body |-> body, status |-> code,
     error |-> parsed.error, registration |-> parsed]

\* register: request.get_json(silent=True) or {} is the empty object for a
\* body that is no JSON; a JSON array has no get, the AttributeError leaves
\* the handler and the framework answers 500
register(body) ==
    IF body.kind = "array"
        THEN /\ response' = Reply(body, 500, ParseError("AttributeError"))
             /\ UNCHANGED <<schedVars, storeVars, algVars, resolverVars>>
        ELSE LET payload == IF body.kind = "object" THEN body.payload ELSE EmptyPayload
                 parsed == _parse_registration_payload(payload)
                 k == <<parsed.volume_name, Chars(parsed.path)>>
             IN  IF ~parsed.ok
                     THEN /\ response' = Reply(body, 400, parsed)
                          /\ UNCHANGED <<schedVars, storeVars, algVars, resolverVars>>
                     ELSE \E t \in clock..MaxClock :
                            /\ clock' = t
                            /\ store' = upsert_registration(store, k, parsed.algorithm,
                                            parsed.params_json, parsed.description, t)
                            /\ lastOp' = OpRecord("upsert", k, parsed.algorithm,
                                            parsed.params_json, parsed.description, 0, t)
                            /\ response' = Reply(body, 201, parsed)
                            /\ UNCHANGED <<running, job, lastCall, pc, snap, idx,
                                           status, cleaned, marked>>
                            /\ UNCHANGED <<algVars, resolverVars>>

\* urllib.parse.unquote, one pass over the percent escapes
RECURSIVE unquote(_)
unquote(s) ==
    IF s = << >> THEN << >>
    ELSE IF Len(s) >= 3 /\ SubSeq(s, 1, 3) = <<"%", "2", "F">>
        THEN <<"/">> \o unquote(SubSeq(s, 4, Len(s)))
    ELSE IF Len(s) >= 3 /\ SubSeq(s, 1, 3) = <<"%", "2", "5">>
        THEN <<"%">> \o unquote(SubSeq(s, 4, Len(s)))
    ELSE <<Head(s)>> \o unquote(Tail(s))

\* the path segments DELETE /register/<volume_name>/<path:encoded_path> gets
EncodedPaths == {<<"%", "2", "F">>, <<"l">>, <<"%", "2", "5", "2", "F">>}

\* cursor.rowcount of the DELETE
rowcount(st, k) == Cardinality(RowsOf(st, k))

\* unregister: 404 when delete_registration removed no row, else 200
unregister(volume_name, encoded_path) ==
    LET decoded_path == unquote(encoded_path)
        k == <<volume_name, decoded_path>>
        removed == rowcount(store, k)
    IN  /\ store' = delete_registration(store, k)
        /\ lastOp' = OpRecord("delete", k, "", "", "", 0, clock)
        /\ response' = [endpoint |-> "DELETE /register", volume_name |-> volume_name,
                        encoded_path |-> encoded_path, removed |-> removed,
                        status |-> IF removed = 0 THEN 404 ELSE 200]
        /\ UNCHANGED <<clock, running, job, lastCall, pc, snap, idx, status, cleaned, marked>>
        /\ UNCHANGED <<algVars, resolverVars>>

NextApi ==
    \/ \E body \in RequestBodies : register(body)
    \/ \E v \in Volumes, enc \in EncodedPaths : unregister(v, enc)

SpecApi == Init /\ [][NextApi]_vars

\* the target resolver called on its own
Resolve(v, rel, env) ==
    /\ resolution' = [called |-> TRUE, volume_name |-> v, relative_path |-> rel,
                        env |-> env, result |-> _resolve_target_path(env, rel)]
    /\ UNCHANGED <<schedVars, storeVars, algVars, apiVars>>

NextResolver == \E v \in Volumes, rel \in RelativePaths, env \in ResolverEnvs : Resolve(v, rel, env)
SpecResolver == Init /\ [][NextResolver]_vars

\* the store alone, under any sequence of its operations
NextStore ==
    \/ \E k \in Keys, reg \in Payloads :
            Upsert(k, reg.algorithm, reg.params_json, reg.description)
    \/ \E k \in Keys : Delete(k)
    \/ \E k \in Keys, n \in 0..MaxRemoved : MarkResult(k, n)

SpecStore == Init /\ [][NextStore]_vars

NextAlg == CallShouldClean \/ CallClean
InitAlg == SchedInit /\ AlgInit(ALGORITHM_REGISTRY)
SpecAlg == InitAlg /\ [][NextAlg]_vars

\* the same for each algorithm alone
\* the algorithms racing with a process that removes files
NextRacing == CallShouldCleanRacing \/ CallCleanRacing
SpecRacing == InitAlg /\ [][NextRacing]_vars

\* all three algorithms on targets that hold few files or none
InitSmall == SchedInit /\ AlgInitUpTo(ALGORITHM_REGISTRY, MaxFilesSmall)
SpecSmall == InitSmall /\ [][NextAlg]_vars

\* two calls in a row on one target
NextRepeat == CallShouldClean \/ CallClean \/ CallShouldCleanAgain \/ CallCleanAgain
InitRepeat == SchedInit /\ AlgInitUpTo(ALGORITHM_REGISTRY, MaxFilesRepeat)
SpecRepeat == InitRepeat /\ [][NextRepeat]_vars

InitMaxSize == SchedInit /\ AlgInit({"max_size"})
SpecMaxSize == InitMaxSize /\ [][NextAlg]_vars
InitKeepN == SchedInit /\ AlgInit({"keep_n_latest"})
SpecKeepN == InitKeepN /\ [][NextAlg]_vars
InitRemoveBefore == SchedInit /\ AlgInit({"remove_before_date"})
SpecRemoveBefore == InitRemoveBefore /\ [][NextAlg]_vars

(***************************************************************************)
(* Claims about the scheduler tick.                                        *)
(***************************************************************************)
RaisedIn(p, i) == status[p][i] \in {"should_raised", "clean_raised", "mark_raised"}

\* C1 (tick isolation): when run_once has finished and the evaluation of one
\* registration of its snapshot raised, every other registration of the
\* snapshot was evaluated in that tick, and each one whose should_clean was
\* true and whose clean returned had that clean's files_removed handed to
\* mark_cleanup_result (unless that very call raised).
C1_TickIsolation ==
    \A p \in Invokers :
        Finished(p) =>
            \A i \in DOMAIN status[p] :
                RaisedIn(p, i) =>
                    \A j \in DOMAIN status[p] \ {i} :
                        /\ status[p][j] # "pending"
                        /\ (cleaned[p][j] >= 0 /\ status[p][j] # "mark_raised")
                              => /\ status[p][j] = "marked"
                                 /\ marked[p][j] = cleaned[p][j]

\* a tick returned in which the first registration raised and the second
\* one was cleaned and its result persisted
C1_Witness ==
    \E p \in Invokers :
        /\ pc[p] = "returned"
        /\ Len(status[p]) = 2
        /\ RaisedIn(p, 1)
        /\ status[p][2] = "marked"
        /\ marked[p][2] = cleaned[p][2]
        /\ \E r \in RowsOf(store, snap[p][2].key) :
                r.last_cleaned /\ r.files_removed_last_run = marked[p][2]

\* C2 (containment): no failure during a tick leaves run_once as an
\* exception; run_once always returns normally to its caller.
C2_NothingEscapesRunOnce == \A p \in Invokers : pc[p] # "raised"

\* C3 (re-entrancy): run_once is never executing twice at the same time for
\* one scheduler.
C3_NoOverlappingTicks == Cardinality({p \in Invokers : InFlight(p)}) <= 1

(***************************************************************************)
(* Claims about the cleanup algorithms.                                    *)
(***************************************************************************)
Done(a, op) == algo = a /\ call.op = op
Called(a) == algo = a /\ call.op # "none"

\* what the params say, read as the spec reads them
GivenInt(x) == x.t # "none" /\ PyInt(x).ok
IntGiven(x) == PyInt(x).n
SortByGiven == Strip(Lower(IF Truthy(params.sort_by) THEN PyStr(params.sort_by) ELSE "mtime"))
SortByIsValid == SortByGiven \in {"mtime", "ctime", "size"}
Gone == Ids(before) \ Ids(files)
FileOf(id) == before[CHOOSE i \in 1..Len(before) : before[i].id = id]

\* C4 (MaxSize convergence): when the files total more than max_bytes > 0
\* and sort_by is valid, clean returns and leaves files that total at most
\* max_bytes, or no file at all.
C4_MaxSizeConvergence ==
    ( /\ Done("max_size", "clean")
      /\ GivenInt(params.max_bytes) /\ IntGiven(params.max_bytes) > 0
      /\ SortByIsValid
      /\ _total_size(before) > IntGiven(params.max_bytes) )
    => /\ ~call.raised
       /\ \/ _total_size(files) <= IntGiven(params.max_bytes)
          \/ Len(files) = 0

\* three files over the cap, of which clean by size removed two and left one
C4_Witness ==
    /\ Done("max_size", "clean")
    /\ SortByGiven = "size"
    /\ Len(before) = 3
    /\ _total_size(before) > IntGiven(params.max_bytes)
    /\ call.files_removed = 2
    /\ Len(files) = 1
    /\ _total_size(files) <= IntGiven(params.max_bytes)

\* C5 (KeepNLatest invariant): with keep_count >= 0 and a valid sort_by,
\* clean returns and leaves exactly min(original count, keep_count) files,
\* which are the first keep_count files of the descending sort_by ranking
\* (equal keys ranked in enumeration order), and files_removed is the
\* original count minus the count left.
C5_KeepNLatest ==
    ( /\ Done("keep_n_latest", "clean")
      /\ GivenInt(params.keep_count) /\ IntGiven(params.keep_count) >= 0
      /\ SortByIsValid )
    => /\ ~call.raised
       /\ Ids(files) \subseteq Ids(before)
       /\ Len(files) = IF Len(before) < IntGiven(params.keep_count)
                          THEN Len(before) ELSE IntGiven(params.keep_count)
       /\ \A r \in Ids(files), d \in Gone :
            LET kr == KeyOf(FileOf(r), SortByGiven)
                kd == KeyOf(FileOf(d), SortByGiven)
            IN  kr > kd \/ (kr = kd /\ r < d)
       /\ call.files_removed = Len(before) - Len(files)

\* three files ranked by ctime, of which the one enumerated first was removed
C5_Witness ==
    /\ Done("keep_n_latest", "clean")
    /\ SortByGiven = "ctime"
    /\ GivenInt(params.keep_count) /\ IntGiven(params.keep_count) = 2
    /\ Len(before) = 3
    /\ Ids(files) = {2, 3}
    /\ call.files_removed = 1

RemoveBeforeThreshold == _parse_threshold(params, now)

\* C6 as stated (RemoveBeforeDate correctness): clean deletes a file if and
\* only if its modification time is strictly earlier than the threshold,
\* and files_removed counts the deleted files.
C6_DeletedIffStrictlyEarlier ==
    ( Done("remove_before_date", "clean") /\ RemoveBeforeThreshold.ok )
    => /\ ~call.raised
       /\ \A i \in 1..Len(before) :
            before[i].id \in Gone
                <=> before[i].mtime < RemoveBeforeThreshold.n * TicksPerMicro
       /\ call.files_removed = Cardinality(Gone)

\* the microsecond m is the one nearest to the timestamp, the even one of
\* two equally near
NearestMicro(ticks, m) ==
    LET twice == 2 * (ticks - m * TicksPerMicro)
        dist == IF twice < 0 THEN -twice ELSE twice
    IN  dist < TicksPerMicro \/ (dist = TicksPerMicro /\ m % 2 = 0)

\* C6 as amended: clean deletes a file if and only if its modification
\* time, rounded to the nearest microsecond, is strictly earlier than the
\* threshold, and files_removed counts the deleted files.
C6_DeletedIffRoundedEarlier ==
    ( Done("remove_before_date", "clean") /\ RemoveBeforeThreshold.ok )
    => /\ ~call.raised
       /\ \A i \in 1..Len(before) :
            before[i].id \in Gone
                <=> \E m \in 0..(RemoveBeforeThreshold.n - 1) :
                        NearestMicro(before[i].mtime, m)
       /\ call.files_removed = Cardinality(Gone)

\* of two files, the one before the threshold was removed and the one
\* modified exactly at the threshold was kept
C6_Witness ==
    /\ Done("remove_before_date", "clean")
    /\ RemoveBeforeThreshold.ok
    /\ Len(before) = 2 /\ Len(files) = 1
    /\ FileOf(CHOOSE d \in Gone : TRUE).mtime < RemoveBeforeThreshold.n * TicksPerMicro
    /\ files[1].mtime = RemoveBeforeThreshold.n * TicksPerMicro
    /\ call.files_removed = 1

\* C7 (max_bytes <= 0): should_clean and clean of MaxSize both raise a
\* configuration error and delete no file.
C7_NonPositiveMaxBytesRaises ==
    ( /\ Called("max_size")
      /\ PyInt(OrZero(params.max_bytes)).ok
      /\ PyInt(OrZero(params.max_bytes)).n <= 0 )
    => call.raised /\ files = before

\* C8 (unknown sort_by): should_clean and clean of MaxSize and of
\* KeepNLatest both raise a configuration error and delete no file.
C8_UnknownSortByRaises ==
    ( (Called("max_size") \/ Called("keep_n_latest")) /\ ~SortByIsValid )
    => call.raised /\ files = before

\* C9 (keep_count required): with no keep_count, or a negative one,
\* should_clean and clean of KeepNLatest raise a configuration error and
\* delete no file.
C9_KeepCountRequired ==
    ( /\ Called("keep_n_latest")
      /\ \/ params.keep_count.t = "none"
         \/ GivenInt(params.keep_count) /\ IntGiven(params.keep_count) < 0 )
    => call.raised /\ files = before

\* C10 (same validation in both entry points): the call that was made
\* raised if and only if the other entry point raises on the same target
\* and params.
C10_SameValidation ==
    /\ call.op = "should_clean"
          => (call.raised <=> clean(algo, before, params, now).raised)
    /\ call.op = "clean"
          => (call.raised <=> should_clean(algo, before, params, now).raised)

(***************************************************************************)
(* The registration store.                                                 *)
(***************************************************************************)
\* C11: in every reachable state of the store, whatever upserts, deletes and
\* result marks of the control plane and of the ticks led to it, there is at
\* most one row per (volume_name, path).
C11_OneRowPerKey == \A k \in Keys : Cardinality(RowsOf(store, k)) <= 1

\* a key registered again with another algorithm after a tick marked its row
C11_Witness ==
    \E r \in store : r.last_cleaned /\ r.algorithm = "bogus"

\* C12: an upsert of a key that is already stored leaves exactly one row for
\* the key; its algorithm, params and description are those of this call, its
\* created_at is that of the row found and its updated_at is the time of this
\* call, not earlier than the one found.
C12_IdempotentUpsert ==
    (lastOp.op = "upsert" /\ lastOp.found # {}) =>
        /\ Cardinality(RowsOf(store, lastOp.key)) = 1
        /\ \A r \in RowsOf(store, lastOp.key) :
            /\ r.algorithm = lastOp.algorithm
            /\ r.params_json = lastOp.params_json
            /\ r.description = lastOp.description
            /\ r.updated_at = lastOp.at
            /\ \A f \in lastOp.found :
                /\ r.created_at = f.created_at
                /\ r.updated_at >= f.updated_at

\* a second upsert, later than the first and with other fields
C12_Witness ==
    /\ lastOp.op = "upsert"
    /\ \E f \in lastOp.found :
        /\ f.created_at < lastOp.at
        /\ f.algorithm # lastOp.algorithm
        /\ f.params_json # lastOp.params_json
        /\ f.description # lastOp.description

\* C13: when the row of a registration was deleted after the tick took its
\* snapshot, the tick's mark_cleanup_result for that key completes without
\* an error and creates no row: no row of the key is in the store after it.
C13_MarkAfterUnregister ==
    (lastOp.op = "mark" /\ lastOp.found = {}) => RowsOf(store, lastOp.key) = {}

\* a tick wrote the result of a registration whose row was gone, and went on
C13_Witness ==
    /\ lastOp.op = "mark" /\ lastOp.found = {}
    /\ \E p \in Invokers : \E i \in 1..Len(snap[p]) :
        /\ snap[p][i].key = lastOp.key
        /\ status[p][i] = "marked"

(***************************************************************************)
(* Files removed by another process during a call.                         *)
(***************************************************************************)
\* C14: when another process removes a file of the target between the scan
\* and the later stat or delete of that file, should_clean and clean of
\* every algorithm complete without raising: a call raises only if it
\* raises for its params on the untouched target as well.
C14_VanishedFilesTolerated ==
    /\ call.op = "should_clean_racing" =>
            (call.raised => should_clean(algo, before, params, now).raised)
    /\ call.op = "clean_racing" =>
            (call.raised => clean(algo, before, params, now).raised)

(***************************************************************************)
(* The scheduler's Stopped/Running state and its timer.                    *)
(***************************************************************************)
\* C15: the scheduler is Stopped or Running and starts Stopped; start leaves
\* it Running and stop leaves it Stopped; the timer is started only by a
\* start that found the scheduler Stopped and shut down only by a stop that
\* found it Running; GET /health reports the state as scheduler_running.
C15_StartStopStateMachine ==
    /\ running \in BOOLEAN
    /\ lastCall.call = "none" => ~running
    /\ lastCall.call = "start" =>
            /\ running
            /\ lastCall.timer_call = IF lastCall.was THEN "none" ELSE "start"
    /\ lastCall.call = "stop" =>
            /\ ~running
            /\ lastCall.timer_call = IF lastCall.was THEN "shutdown" ELSE "none"
    /\ health.scheduler_running = (lastCall.call = "start")

\* start was called on a scheduler that was running, after a stop and a start
C15_Witness ==
    /\ lastCall = [call |-> "start", was |-> TRUE, timer_call |-> "none"]
    /\ ~job

\* C16: while the scheduler is Running the timer keeps firing run_once: from
\* any moment on, a tick of the timer is in flight or begins later, or the
\* scheduler is stopped, also after a stop followed by a start; and the timer
\* begins a tick only while the scheduler is Running.
C16_TimerKeepsFiring ==
    /\ [](running => <>(pc["timer"] # "idle" \/ ~running))
    /\ [][(pc["timer"] = "idle" /\ pc'["timer"] # "idle") => running]_vars

(***************************************************************************)
(* The registrations a tick evaluates.                                     *)
(***************************************************************************)
KeyIndex(k) == CHOOSE i \in 1..Len(SortedKeys) : SortedKeys[i] = k
Settled(p, i) == status[p][i] # "pending"

\* C17: run_once reads the list once when the tick begins and keeps it to
\* the end of the tick; the list is in (volume_name, path) order; the
\* registrations are evaluated one after the other in that order, each at
\* most once, and as the list holds them: what the control plane upserts
\* after the list was read plays no part in the tick.
C17_SnapshotOncePerTick ==
    /\ [](\A p \in Invokers : \A i \in 1..Len(snap[p]) :
            /\ \A j \in 1..Len(snap[p]) :
                    i < j => KeyIndex(snap[p][i].key) < KeyIndex(snap[p][j].key)
            /\ Settled(p, i) => i <= idx[p]
            /\ i < idx[p] => Settled(p, i)
            /\ status[p][i] = "unknown_algorithm" <=>
                    (Settled(p, i) /\ snap[p][i].algorithm \notin ALGORITHM_REGISTRY))
    /\ [][\A p \in Invokers :
            (pc[p] # "idle" /\ pc'[p] # "idle") =>
                /\ snap'[p] = snap[p]
                /\ \A i \in 1..Len(snap[p]) :
                        Settled(p, i) => status'[p][i] = status[p][i]]_vars

\* a tick went through its list of two registrations while the control
\* plane gave the first another algorithm and deleted the second
C17_Witness ==
    /\ pc["timer"] = "returned"
    /\ Len(snap["timer"]) = 2
    /\ status["timer"][1] = "unknown_algorithm"
    /\ \E r \in RowsOf(store, SortedKeys[1]) : r.algorithm = "max_size"
    /\ RowsOf(store, SortedKeys[2]) = {}

(***************************************************************************)
(* The target resolver.                                                    *)
(***************************************************************************)
\* the relative path without its leading slashes: what is left of it after
\* a run of slashes that the next character does not continue
Stripped(rel, rest) ==
    \E k \in 0..Len(rel) :
        /\ \A i \in 1..k : rel[i] = "/"
        /\ rest = SubSeq(rel, k + 1, Len(rel))
        /\ rest = << >> \/ rest[1] # "/"

\* C19: the target resolver never raises; it returns not-found when the
\* client of the volume backend is unavailable, when the volume lookup fails
\* or when the volume has no mountpoint; otherwise it returns the mountpoint
\* joined with the relative path stripped of its leading slashes, and the
\* mountpoint itself when nothing is left of the relative path.
C19_ResolverNeverRaises ==
    resolution.called =>
        LET env == resolution.env
            mount == env.mountpoint.s
            res == resolution.result
            unavailable ==
                \/ ~env.client
                \/ env.lookup = "raises"
                \/ ~env.mountpoint.given
                \/ mount = << >>
        IN  /\ ~res.raised
            /\ res.found <=> ~unavailable
            /\ res.found =>
                \E n \in 0..Len(res.path) :
                    LET rest == SubSeq(res.path, n + 1, Len(res.path))
                    IN  /\ Stripped(resolution.relative_path, rest)
                        /\ \/ rest = << >> /\ res.path = mount
                           \/ rest # << >> /\ mount[Len(mount)] = "/" /\ res.path = mount \o rest
                           \/ rest # << >> /\ mount[Len(mount)] # "/"
                                /\ res.path = mount \o <<"/">> \o rest

\* a relative path with leading slashes resolved under a mountpoint
C19_Witness ==
    /\ resolution.called
    /\ resolution.relative_path = <<"/", "/", "l", "/", "a">>
    /\ resolution.result = Found(<<"/", "m", "/", "l", "/", "a">>)

(***************************************************************************)
(* Registrations a tick cannot evaluate.                                   *)
(***************************************************************************)
Skipped(p, i) == status[p][i] \in {"unknown_algorithm", "unresolved"}

\* C18: a registration whose algorithm is not in the registry, or whose
\* target does not resolve to a path, is skipped for the tick: clean is not
\* called for it (nor should_clean before it), no result is handed to the
\* store for it and the store is left as it is, and the tick goes on with
\* the next registration, or returns after the last one.
C18_SkipWhatCannotBeEvaluated ==
    /\ [](\A p \in Invokers : \A i \in 1..Len(snap[p]) :
            /\ (Settled(p, i) /\ snap[p][i].algorithm \notin ALGORITHM_REGISTRY)
                    => status[p][i] = "unknown_algorithm"
            /\ Skipped(p, i) =>
                    /\ cleaned[p][i] = -1
                    /\ marked[p][i] = -1
                    /\ i < Len(snap[p]) => idx[p] > i
                    /\ i = Len(snap[p]) => pc[p] = "returned")
    /\ [][\A p \in Invokers : \A i \in 1..Len(snap[p]) :
            (~Settled(p, i) /\ pc'[p] # "idle" /\ status'[p][i] \in
                    {"unknown_algorithm", "unresolved"})
                => (store' = store /\ lastOp' = lastOp)]_vars

\* a tick skipped its first registration, whose target did not resolve, and
\* cleaned the second
C18_Witness ==
    /\ pc["timer"] = "returned"
    /\ Len(snap["timer"]) = 2
    /\ status["timer"][1] = "unresolved"
    /\ status["timer"][2] = "marked"

(***************************************************************************)
(* MaxSize below its cap.                                                  *)
(***************************************************************************)
\* what the no-op of MaxSize is: should_clean answers false; clean returns
\* cleaned=false and files_removed=0; the files are as they were
MaxSizeNoOp ==
    /\ ~call.raised
    /\ ~call.ret
    /\ call.files_removed = 0
    /\ files = before

\* C20 (MaxSize no-op): whenever the files of the target total at most
\* max_bytes, the total equal to max_bytes included, should_clean returns
\* false and clean removes and touches no file and returns cleaned=false
\* with files_removed=0.
C20_MaxSizeNoOp ==
    ( /\ Called("max_size")
      /\ GivenInt(params.max_bytes)
      /\ _total_size(before) <= IntGiven(params.max_bytes) )
    => MaxSizeNoOp

\* C20 as amended: the same for a max_bytes greater than 0 (an empty target
\* under max_bytes = 0 is a configuration error of clean, not a no-op).
C20_MaxSizeNoOpUnderValidCap ==
    ( /\ Called("max_size")
      /\ GivenInt(params.max_bytes)
      /\ IntGiven(params.max_bytes) > 0
      /\ _total_size(before) <= IntGiven(params.max_bytes) )
    => MaxSizeNoOp

\* clean on two files that total exactly max_bytes
C20_Witness ==
    /\ Done("max_size", "clean")
    /\ Len(before) = 2
    /\ GivenInt(params.max_bytes)
    /\ _total_size(before) = IntGiven(params.max_bytes)
    /\ MaxSizeNoOp

(***************************************************************************)
(* Targets without files.                                                  *)
(***************************************************************************)
\* params the policy of algo accepts, as the spec states them
ValidParams ==
    CASE algo = "max_size" ->
            /\ GivenInt(params.max_bytes) /\ IntGiven(params.max_bytes) > 0
            /\ SortByIsValid
      [] algo = "keep_n_latest" ->
            /\ GivenInt(params.keep_count) /\ IntGiven(params.keep_count) >= 0
            /\ SortByIsValid
      [] OTHER ->
            IF Truthy(params.before_date)
                THEN PyStr(params.before_date) \in
                        {"1970-01-01T00:00:00Z", "1970-01-01T00:00:00.000001"}
                ELSE GivenInt(params.max_age_days)

\* C21: for each policy with valid params, on a target that is an empty
\* directory or a path that does not exist, should_clean returns false and
\* clean returns cleaned=false, files_removed=0, bytes_freed=0; neither raises.
C21_NothingToClean ==
    ( /\ call.op \in {"should_clean", "clean"}
      /\ ValidParams
      /\ target = "missing" \/ (target = "dir" /\ before = << >>) )
    => /\ ~call.raised
       /\ ~call.ret
       /\ call.files_removed = 0
       /\ call.bytes_freed = 0
       /\ files = before

\* clean returned from a path that does not exist
C21_Witness ==
    /\ call.op = "clean"
    /\ target = "missing"
    /\ ValidParams
    /\ ~call.raised

(***************************************************************************)
(* Claims about the HTTP API.                                              *)
(***************************************************************************)
\* a step in which DELETE /register was served
UnregisterStep ==
    /\ response'.endpoint = "DELETE /register"
    /\ <<response, store, lastOp>>' # <<response, store, lastOp>>

\* C22 (unregister): delete_registration returns 1 and removes exactly the
\* row of the given (volume_name, path) when that row exists, and returns 0
\* and leaves the store unchanged when it does not; no other row is ever
\* affected, and DELETE /register answers 200 in the first case and 404 in
\* the second.
C22_DeleteOneRow ==
    [][UnregisterStep =>
        LET k == lastOp'.key
        IN  /\ lastOp'.op = "delete"
            /\ \A r \in store \ RowsOf(store, k) : r \in store'
            /\ store' \subseteq store
            /\ IF RowsOf(store, k) # {}
                  THEN /\ response'.removed = 1
                       /\ RowsOf(store', k) = {}
                       /\ response'.status = 200
                  ELSE /\ response'.removed = 0
                       /\ store' = store
                       /\ response'.status = 404]_vars

\* DELETE /register removed the row of a percent-encoded path and answered
\* 200, the other row of the volume is still stored
C22_Witness ==
    /\ response.endpoint = "DELETE /register"
    /\ response.encoded_path = <<"%", "2", "F">>
    /\ response.status = 200
    /\ response.removed = 1
    /\ lastOp.found # {}
    /\ RowsOf(store, lastOp.key) = {}
    /\ \E r \in store : r.volume_name = response.volume_name

\* a step in which POST /register was served
RegisterStep ==
    /\ response'.endpoint = "POST /register"
    /\ <<response, store, lastOp>>' # <<response, store, lastOp>>

\* the body is a JSON object in which key f is a string that is not empty
\* once trimmed
NonEmptyString(body, f) ==
    /\ body.payload[f].t = "str"
    /\ Strip(body.payload[f].s) # ""

\* volume_name, path, algorithm and params are all present, the three
\* strings non-empty after trimming and params an object
WellFormed(body) ==
    /\ body.kind = "object"
    /\ \A f \in {"volume_name", "path", "algorithm"} : NonEmptyString(body, f)
    /\ body.payload.params.t = "obj"

\* C23 (register validation): POST /register answers 201 and upserts exactly
\* one row when volume_name, path, algorithm and params are all present, the
\* three strings are non-empty after trimming and params is an object; in
\* every other case it answers 400 with an error message and the store is
\* left unchanged.
C23_RegisterValidates ==
    [][RegisterStep =>
        IF WellFormed(response'.body)
            THEN LET k == lastOp'.key
                 IN  /\ response'.status = 201
                     /\ lastOp'.op = "upsert"
                     /\ Cardinality(RowsOf(store', k)) = 1
                     /\ store' \ RowsOf(store', k) = store \ RowsOf(store, k)
            ELSE /\ response'.status = 400
                 /\ response'.error # ""
                 /\ store' = store]_vars

(***************************************************************************)
(* Claims about the order and the effects of the calls of a tick.          *)
(***************************************************************************)
\* registration i of the tick of p is in the snapshot before and after a step
InTick(p, i) == i \in DOMAIN status[p] /\ i \in DOMAIN status'[p]

\* the calls of a tick in one step: clean is entered from a should_clean that
\* returned true, returns once, and mark_cleanup_result follows a clean that
\* returned, with its count
OrderedCalls(p) ==
    /\ (pc'[p] = "clean" /\ pc[p] # "clean")
          => /\ pc[p] = "eval"
             /\ idx'[p] = idx[p]
             /\ status[p][idx[p]] = "pending"
             /\ cleaned[p][idx[p]] = -1
    /\ (pc'[p] = "mark" /\ pc[p] # "mark")
          => /\ pc[p] = "clean"
             /\ idx'[p] = idx[p]
             /\ cleaned'[p][idx[p]] >= 0
    /\ \A i \in 1..Len(SortedKeys) :
        InTick(p, i) =>
            /\ (\/ cleaned'[p][i] # cleaned[p][i]
                \/ (status'[p][i] = "clean_raised" /\ status[p][i] = "pending"))
                  => pc[p] = "clean" /\ idx[p] = i /\ cleaned[p][i] = -1
            /\ (\/ marked'[p][i] # marked[p][i]
                \/ (status'[p][i] \in {"marked", "mark_raised"} /\ status[p][i] = "pending"))
                  => /\ pc[p] = "mark" /\ idx[p] = i
                     /\ cleaned[p][i] >= 0
                     /\ marked[p][i] = -1
            /\ marked'[p][i] # marked[p][i]
                  => /\ marked'[p][i] = cleaned[p][i]
                     /\ lastOp'.op = "mark"
                     /\ lastOp'.key = snap[p][i].key
                     /\ lastOp'.files_removed = cleaned[p][i]
                     /\ store' = mark_cleanup_result(store, snap[p][i].key,
                                                     cleaned[p][i], lastOp'.at)
            /\ (status'[p][i] = "should_false" /\ status[p][i] = "pending")
                  => /\ pc[p] = "eval"
                     /\ store' = store /\ lastOp' = lastOp

\* a registration whose should_clean returned false was neither cleaned nor
\* marked; one that was marked was cleaned before
OrderedOutcome(p) ==
    \A i \in DOMAIN status[p] :
        /\ status[p][i] = "should_false" => cleaned[p][i] = -1 /\ marked[p][i] = -1
        /\ marked[p][i] >= 0 => cleaned[p][i] = marked[p][i] /\ status[p][i] = "marked"
        /\ cleaned[p][i] >= 0 =>
                status[p][i] \in {"pending", "marked", "mark_raised"}

\* C24 (call order): within a tick and for each registration, the calls are
\* ordered should_clean, then clean, then mark_cleanup_result: clean is called
\* only after should_clean returned true for that registration in the same
\* tick, mark_cleanup_result is called only after clean returned and with
\* exactly the files_removed that clean returned, and when should_clean
\* returns false neither clean nor any store write happens for that
\* registration.
C24_CallOrder ==
    /\ [](\A p \in Invokers : OrderedOutcome(p))
    /\ [][\A p \in Invokers : OrderedCalls(p)]_vars

\* a tick in which the first registration was cleaned and its count
\* persisted, and should_clean returned false for the second
C24_Witness ==
    \E p \in Invokers :
        /\ Len(status[p]) = 2
        /\ status[p][1] = "marked"
        /\ cleaned[p][1] = MaxRemoved
        /\ marked[p][1] = MaxRemoved
        /\ status[p][2] = "should_false"
        /\ \E r \in RowsOf(store, snap[p][1].key) :
                r.last_cleaned /\ r.files_removed_last_run = MaxRemoved

\* a step of run_once
TickStep ==
    <<pc, snap, idx, status, cleaned, marked>>' # <<pc, snap, idx, status, cleaned, marked>>

\* the primary key of a row
PrimaryKey(r) == <<r.volume_name, r.path>>

\* the clean of the registration of key k has returned in a tick that is
\* about to persist its result
CleanRan(k) ==
    \E p \in Invokers :
        /\ pc[p] = "mark"
        /\ snap[p][idx[p]].key = k
        /\ cleaned[p][idx[p]] >= 0

\* C25 (frame of a tick): run_once never inserts or deletes a registration
\* row and never changes a row's algorithm, params, description or
\* created_at: the only fields a tick changes are last_cleaned,
\* files_removed_last_run and updated_at, and only on rows whose clean ran in
\* that tick.
C25_TickFrame ==
    [][TickStep =>
        /\ Cardinality(store') = Cardinality(store)
        /\ \A r \in store :
            \E q \in store' :
                /\ PrimaryKey(q) = PrimaryKey(r)
                /\ q.algorithm = r.algorithm
                /\ q.params_json = r.params_json
                /\ q.description = r.description
                /\ q.created_at = r.created_at
                /\ q # r => CleanRan(PrimaryKey(r))]_vars

\* a tick has persisted the result of one registration while the row of the
\* other registration is as it was registered
C25_Witness ==
    \E p \in Invokers :
        /\ Len(status[p]) = 2
        /\ status[p][2] = "marked"
        /\ \E r \in RowsOf(store, snap[p][2].key) :
                r.last_cleaned /\ r.files_removed_last_run = MaxRemoved
        /\ \E r \in RowsOf(store, snap[p][1].key) :
                ~r.last_cleaned /\ r.files_removed_last_run = 0

(***************************************************************************)
(* Claims about the eviction order of MaxSize.                             *)
(***************************************************************************)
\* f is evicted before g: older by modification time, older by creation
\* time, or larger; of two files that tie, the one enumerated first
EvictedBefore(f, g) ==
    \/ SortByGiven = "mtime" /\ f.mtime < g.mtime
    \/ SortByGiven = "ctime" /\ f.ctime < g.ctime
    \/ SortByGiven = "size" /\ f.size > g.size
    \/ /\ f.id < g.id
       /\ \/ SortByGiven = "mtime" /\ f.mtime = g.mtime
          \/ SortByGiven = "ctime" /\ f.ctime = g.ctime
          \/ SortByGiven = "size" /\ f.size = g.size

\* the removed file that is evicted last
LastEvicted(id) ==
    /\ id \in Gone
    /\ \A other \in Gone \ {id} : EvictedBefore(FileOf(other), FileOf(id))

\* C26 (MaxSize eviction order): clean removes exactly the shortest prefix of
\* the eviction order whose removal brings the running total to <= max_bytes,
\* where the order is ascending modification time for sort_by=mtime,
\* ascending creation time for sort_by=ctime and descending size for
\* sort_by=size, ties kept in enumeration order; every retained file ranks
\* after every removed file in that order.
C26_EvictionOrder ==
    ( /\ Done("max_size", "clean")
      /\ GivenInt(params.max_bytes) /\ IntGiven(params.max_bytes) > 0
      /\ SortByIsValid )
    => /\ ~call.raised
       /\ \A id \in Gone, kept \in Ids(files) :
                EvictedBefore(FileOf(id), FileOf(kept))
       /\ _total_size(files) <= IntGiven(params.max_bytes)
       /\ \A id \in Gone :
            LastEvicted(id) =>
                _total_size(files) + FileOf(id).size > IntGiven(params.max_bytes)
       /\ call.files_removed = Cardinality(Gone)

\* clean by size over three files removed one of the two largest, the one
\* enumerated first, and kept the other and a smaller file
C26_Witness ==
    /\ Done("max_size", "clean")
    /\ SortByGiven = "size"
    /\ IntGiven(params.max_bytes) > 0
    /\ Len(before) = MaxFiles
    /\ Cardinality(Gone) = 1
    /\ \E id \in Gone, kept \in Ids(files) :
            /\ FileOf(id).size = FileOf(kept).size
            /\ id < kept
    /\ \E kept \in Ids(files), id \in Gone : FileOf(kept).size < FileOf(id).size

(***************************************************************************)
(* Claims about the store under interleaved writers.                       *)
(***************************************************************************)
\* a step in which the store operation op was called
StoreStep(op) == lastOp' # lastOp /\ lastOp'.op = op

\* the rows of the other keys are what they were
OtherRowsKept(k) == store' \ RowsOf(store', k) = store \ RowsOf(store, k)

\* C27 (no lost update): a control-plane upsert and a scheduler
\* mark_cleanup_result on the same key never lose each other's update, in
\* either order of interleaving: the upsert leaves last_cleaned and
\* files_removed_last_run of an existing row unchanged, and the mark leaves
\* algorithm, params, description and created_at unchanged, each store
\* operation taking effect atomically on the single row.
C27_NoLostUpdate ==
    [][LET k == lastOp'.key
       IN  /\ StoreStep("upsert") =>
                /\ OtherRowsKept(k)
                /\ Cardinality(RowsOf(store', k)) = 1
                /\ \A q \in RowsOf(store', k) :
                    /\ q.algorithm = lastOp'.algorithm
                    /\ q.params_json = lastOp'.params_json
                    /\ q.description = lastOp'.description
                    /\ q.updated_at = lastOp'.at
                    /\ \A r \in RowsOf(store, k) :
                        /\ q.last_cleaned = r.last_cleaned
                        /\ q.files_removed_last_run = r.files_removed_last_run
                        /\ q.created_at = r.created_at
           /\ StoreStep("mark") =>
                /\ OtherRowsKept(k)
                /\ Cardinality(RowsOf(store', k)) = Cardinality(RowsOf(store, k))
                /\ \A r \in RowsOf(store, k) :
                    \A q \in RowsOf(store', k) :
                        /\ q.algorithm = r.algorithm
                        /\ q.params_json = r.params_json
                        /\ q.description = r.description
                        /\ q.created_at = r.created_at
                        /\ q.last_cleaned
                        /\ q.files_removed_last_run = lastOp'.files_removed
                        /\ q.updated_at = lastOp'.at]_vars

\* an upsert that changed the algorithm of a row after a mark had written
\* its result at a later time than the row was created: the row holds both
C27_Witness ==
    /\ lastOp.op = "upsert"
    /\ \E r \in lastOp.found, q \in RowsOf(store, lastOp.key) :
        /\ r.last_cleaned /\ r.files_removed_last_run = MaxRemoved
        /\ r.created_at < r.updated_at
        /\ q.algorithm # r.algorithm
        /\ q.last_cleaned /\ q.files_removed_last_run = MaxRemoved
        /\ q.created_at = r.created_at

(***************************************************************************)
(* Claims about what the algorithms do to the files.                       *)
(***************************************************************************)
\* C28 (should_clean is read-only): for all three algorithms, whatever the
\* params and the target, and whether it returns true, returns false or
\* raises, should_clean deletes and modifies no file: the files under the
\* target are the same before and after the call.
C28_ShouldCleanReadOnly ==
    call.op = "should_clean" => files = before

\* should_clean of remove_before_date answered true on a target that holds a
\* file, and the file is still there
C28_Witness ==
    /\ Done("remove_before_date", "should_clean")
    /\ call.ret /\ ~call.raised
    /\ Len(before) = MaxFilesSmall
    /\ files = before

\* remove_before_date is given its threshold as before_date
FixedBeforeDate == algo = "remove_before_date" => Truthy(params.before_date)

\* the last two calls, in this order
Sequel(first, second) ==
    /\ earlier.op = first /\ ~earlier.raised
    /\ call.op = second

\* C29 (fixed point of clean): for MaxSize, KeepNLatest and RemoveBeforeDate
\* with a fixed before_date, with valid params and no other process changing
\* the target, after one completed clean should_clean on the same target and
\* params returns false and a second clean removes no file and returns
\* cleaned=false; and on an unchanged target clean removes at least one file
\* if and only if should_clean returns true.
C29_CleanFixedPoint ==
    (ValidParams /\ FixedBeforeDate) =>
        /\ Sequel("clean", "should_clean") => ~call.raised /\ ~call.ret
        /\ Sequel("clean", "clean") =>
                /\ ~call.raised /\ ~call.ret
                /\ call.files_removed = 0
                /\ files = before
        /\ Sequel("should_clean", "clean") =>
                /\ ~call.raised
                /\ call.files_removed >= 1 <=> earlier.ret
                /\ call.files_removed = Cardinality(Gone)

\* a second clean of keep_n_latest after a clean that had removed a file:
\* it found nothing left to remove
C29_Witness ==
    /\ algo = "keep_n_latest"
    /\ ValidParams
    /\ Sequel("clean", "clean")
    /\ earlier.ret /\ earlier.files_removed >= 1
    /\ ~call.ret /\ call.files_removed = 0
    /\ Len(files) >= 1

(***************************************************************************)
(* Claims about where the target of a registration lies.                   *)
(***************************************************************************)
\* the segments of a path: what stands between its slashes
RECURSIVE Segments(_)
Segments(s) ==
    IF s = << >> THEN << >>
    ELSE IF Head(s) = "/" THEN Segments(Tail(s))
    ELSE LET stops == {i \in 1..Len(s) : s[i] = "/"}
             n == IF stops = {} THEN Len(s) + 1
                  ELSE CHOOSE i \in stops : \A j \in stops : i <= j
         IN  <<SubSeq(s, 1, n - 1)>> \o Segments(SubSeq(s, n, Len(s)))

\* the directories an absolute path walks through, as the filesystem reads
\* it: "." stays, ".." goes to the parent, and the root is its own parent
RECURSIVE Walk(_, _)
Walk(segs, at) ==
    IF segs = << >> THEN at
    ELSE IF Head(segs) = <<".">> THEN Walk(Tail(segs), at)
    ELSE IF Head(segs) = <<".", ".">>
        THEN Walk(Tail(segs), IF at = << >> THEN at ELSE SubSeq(at, 1, Len(at) - 1))
    ELSE Walk(Tail(segs), Append(at, Head(segs)))

\* path names the directory mount or something below it
Inside(path, mount) ==
    LET p == Walk(Segments(path), << >>)
        m == Walk(Segments(mount), << >>)
    IN  Len(m) <= Len(p) /\ SubSeq(p, 1, Len(m)) = m

\* C30 (containment): for every registration that can be stored (through
\* POST /register or label discovery), the concrete path that run_once hands
\* to should_clean and clean is the volume's mountpoint or a descendant of
\* it, also when the stored relative path contains '..' segments; a tick
\* therefore never deletes a file located outside the registered volume's
\* mountpoint.
C30_TargetInsideMountpoint ==
    (resolution.called /\ resolution.result.found) =>
        Inside(resolution.result.path, resolution.env.mountpoint.s)

=============================================================================
